---- MODULE Spec2Model ----
(***************************************************************************)
(* Channel-output layer of the Falcon Player: the ArtNet protocol sink     *)
(* (src/src/channeloutput/ArtNet.cpp) run by the UDP output dispatch, and  *)
(* the framebuffer matrix sink (src/src/channeloutput/FBMatrix.cpp), the   *)
(* pixel-bus sink (src/src/channeloutput/spixels.cpp) and the network      *)
(* monitor (src/src/NetworkMonitor.cpp).                                   *)
(***************************************************************************)
EXTENDS Integers, Sequences, FiniteSets, TLC

VARIABLES
    sinks,          \* ArtNetOutputData objects, index -> fields
    channelData,    \* show buffer supplied to the sinks in the current tick
    prevFrame,      \* history: the buffer supplied in the previous tick
    messages,       \* UDPOutputMessages: messages[ARTNET_DEST_PORT]
    sendSocket,     \* UDPOutputMessages: socket of ARTNET_DEST_PORT, -1 if none
    socketsCreated, \* history: number of CreateArtNetSocket calls
    tickOpen,       \* dispatch: a tick is in progress
    prepared,       \* dispatch: sinks whose PrepareData ran in this tick
    posted,         \* dispatch: sinks whose PostPrepareData ran in this tick
    ticks,          \* dispatch: ticks started (counted by the bounded tick)
    reads,          \* history: buffer offsets each sink's last PrepareData used
    calls,          \* history: PrepareData calls made on each sink, modulo 255,
                    \* and whether one of them queued nothing
    fb,             \* FBMatrixOutput object
    hw,             \* framebuffer device: mode, pan position, mapped memory
    fbLast,         \* history: what the last SendData did
    callbacks,      \* NetworkMonitor::callbacks: the registered ids
    curId,          \* NetworkMonitor::curId
    nlSocket,       \* the netlink socket: "unset", "ok", "unbound" or "bad"
    kernel,         \* datagrams queued by the kernel on the netlink socket
    pc,             \* poll handler: "new", "idle", "decode", "dispatch",
                    \* "crashed"
    buf,            \* poll handler: the datagram in buf, a sequence of messages
    h,              \* poll handler: index in buf of the message at h
    OK,             \* poll handler: the flag of the decoding loop
    ev,             \* callCallbacks: the event being dispatched
    it,             \* callCallbacks: <<id>> at the loop's position, <<>> at end
    nmHist,         \* history of the poll handler and of the dispatch
    spx,            \* SpixelsOutput object: strings and strips
    spxData,        \* history: the buffer given to the last spixels PrepData
    spxRanges       \* history: what GetRequiredChannelRanges reported

artnetVars == <<sinks, channelData, prevFrame, messages, sendSocket,
                socketsCreated, tickOpen, prepared, posted, ticks, reads,
                calls>>
fbVars == <<fb, hw, fbLast>>
monVars == <<callbacks, curId, nlSocket, kernel, pc, buf, h, OK, ev, it,
             nmHist>>
spxVars == <<spx, spxData, spxRanges>>
nonArtnetVars == <<fbVars, monVars, spxVars>>
nonFbVars == <<artnetVars, monVars, spxVars>>
nonMonVars == <<artnetVars, fbVars, spxVars>>
nonSpxVars == <<artnetVars, fbVars, monVars>>
vars == <<artnetVars, fbVars, monVars, spxVars>>

----------------------------------------------------------------------------
(* Bounds of the model *)

MaxStartChannel == 2
MaxChannelCount == 2
MaxUniverseCount == 2
NumSinks == 2
MaxTicks == 2
MaxSkipped == 2

(* Program constants *)

ARTNET_HEADER_LENGTH == 18
ARTNET_SYNC_PACKET_LENGTH == 14
ARTNET_DEST_PORT == 6454
ARTNET_TYPE_BROADCAST == 2
ARTNET_TYPE_UNICAST == 3

\* Size of the show buffer: large enough for every configured sink.
MAX_CHANNELS == (MaxStartChannel - 1) + MaxChannelCount * MaxUniverseCount

NoFrame == <<>>
NoData == <<>>
NoSocket == -1

----------------------------------------------------------------------------
(* ArtNetOutputData construction *)

\* universeCount from the configuration: default 1, forced to 1 below 1.
UniverseCountOf(cfg) ==
    LET uc == IF cfg.hasUniverseCount THEN cfg.universeCount ELSE 1
    IN IF uc < 1 THEN 1 ELSE uc

\* toInetAddr(ipAddress, valid): valid reports whether the host resolved.
toInetAddr(cfg) == cfg.resolves

\* Faulty variant: the unresolved sink is left active.
ActiveNoClear(type, valid, active) == active

\* A unicast sink whose host did not resolve is disabled.
ActiveAfterResolve(type, valid, active) ==
    IF type = ARTNET_TYPE_BROADCAST THEN active
    ELSE IF ~valid /\ active THEN FALSE ELSE active

\* valid is set by the base constructor and cleared by a failed resolution.
ValidAfterResolve(type, cfg) ==
    IF type = ARTNET_TYPE_BROADCAST THEN TRUE ELSE toInetAddr(cfg)

\* Faulty variant: the two universe bytes are written high byte first.
UniverseFieldSwapped(uni) == <<(uni \div 256) % 256, uni % 256>>

\* Header bytes 14 and 15: the universe, low byte first.
UniverseField(uni) == <<uni % 256, (uni \div 256) % 256>>

\* Faulty variant: the two length bytes are written low byte first.
LengthFieldSwapped(channelCount) ==
    <<channelCount % 256, (channelCount \div 256) % 256>>

\* Header bytes 16 and 17: the length, high byte first.
LengthField(channelCount) ==
    <<(channelCount \div 256) % 256, channelCount % 256>>

ArtNetOutputData(cfg) ==
    LET uc == UniverseCountOf(cfg)
        v == ValidAfterResolve(cfg.type, cfg)
    IN [ config |-> cfg,     \* history: what the sink was constructed from
         startChannel |-> cfg.startChannel,
         channelCount |-> cfg.channelCount,
         universeCount |-> uc,
         type |-> cfg.type,
         valid |-> v,
         active |-> ActiveAfterResolve(cfg.type, v, cfg.active),
         sequenceNumber |-> 1,
         skippedFrames |-> 0,
         lastData |-> NoData,
         \* sequence byte of each universe's header, 0 in the template
         anHeaders |-> [x \in 0..(uc - 1) |-> 0],
         \* iov_base of each universe's payload segment, -1 for nullptr
         anIovecs |-> [x \in 0..(uc - 1) |-> -1],
         \* bytes 14-15 and 16-17 of each universe's header
         anUniverse |-> [x \in 0..(uc - 1) |-> UniverseField(cfg.universe + x)],
         anLength |-> [x \in 0..(uc - 1) |-> LengthField(cfg.channelCount)],
         \* iov_len of each universe's two segments
         anIovLen |-> [x \in 0..(uc - 1) |->
                         <<ARTNET_HEADER_LENGTH, cfg.channelCount>>] ]

\* anIovecs[x * 2 + 1].iov_len
PayloadLength(sink) == sink.channelCount

----------------------------------------------------------------------------
(* UDPOutputData frame-diff cache *)

\* TRUE when the universe at savedIdx differs from the snapshot, or no
\* snapshot exists.
NeedToOutputFrame(lastData, data, startChannel, savedIdx, count) ==
    \/ lastData = NoData
    \/ \E i \in 0..(count - 1) :
          data[i + startChannel + savedIdx] # lastData[i + savedIdx + 1]

\* Copy len bytes starting at offset off into the snapshot.
SaveFrame(data, off, len) == [i \in 1..len |-> data[off + i - 1]]

----------------------------------------------------------------------------
(* ArtNetOutputData::PrepareData *)

SinkEnabled(sink) == sink.valid /\ sink.active

\* UDPOutputMessages::GetSocket: the socket of the port, -1 if none.
GetSocket(sock) == sock

\* UDPOutputMessages::ForceSocket: the port's socket becomes fd.
ForceSocket(sock, fd) == fd

\* CreateArtNetSocket: a new descriptor, numbered by creation.
CreateArtNetSocket(created) == created + 1

\* Faulty variant: a socket is created on every call.
SocketAlways(sock) == TRUE

\* messages.GetSocket(ARTNET_DEST_PORT) == -1
NeedSocket(sock) == GetSocket(sock) = NoSocket

DataMsg(s, x, channelCount) ==
    [ name |-> <<"anAddress", s>>,
      iov |-> <<"anIovecs", s, x * 2>>,
      iovlen |-> 2,
      len |-> channelCount + ARTNET_HEADER_LENGTH ]

\* One pass of the per-universe loop; acc carries the locals.
RECURSIVE UniverseLoop(_, _, _, _, _)
UniverseLoop(s, sink, data, x, acc) ==
    IF x >= sink.universeCount THEN acc
    ELSE
      LET need == NeedToOutputFrame(sink.lastData, data, sink.startChannel - 1,
                                    acc.start, sink.channelCount)
          window == {acc.cur + i : i \in 0..(sink.channelCount - 1)}
          body ==
            IF need
            THEN [acc EXCEPT
                    !.msgs = Append(@, DataMsg(s, x, sink.channelCount)),
                    !.anHeaders[x] = sink.sequenceNumber,
                    !.anIovecs[x] = acc.cur,
                    !.allSkipped = FALSE]
            ELSE [acc EXCEPT !.skipped = TRUE]
      IN UniverseLoop(s, sink, data, x + 1,
            [body EXCEPT !.cur = @ + sink.channelCount,
                         !.start = @ + sink.channelCount,
                         !.reads = @ \cup window])

\* Values of the 8-bit sequenceNumber field.
SequenceModulus == 256

\* Faulty variant: the counter wraps to 0.
SequenceNoSkip(n) == (n + 1) % SequenceModulus

\* sequenceNumber++, skipping 0.
NextSequenceNumber(n) ==
    LET m == (n + 1) % SequenceModulus
    IN IF m = 0 THEN m + 1 ELSE m

\* Faulty variant: the counter advances only when a datagram was queued.
SequenceWhenQueued(n, skipped, allSkipped) ==
    IF allSkipped THEN n ELSE NextSequenceNumber(n)

\* The increment follows the universe loop unconditionally.
SequenceNumberAfter(n, skipped, allSkipped) == NextSequenceNumber(n)

\* Faulty variant: only a frame with every universe skipped is counted.
SkippedWhenAll(skippedFrames, skipped, allSkipped) ==
    IF allSkipped THEN skippedFrames + 1 ELSE skippedFrames

\* if (skipped) skippedFrames++
SkippedFramesAfter(skippedFrames, skipped, allSkipped) ==
    IF skipped THEN skippedFrames + 1 ELSE skippedFrames

\* Faulty variant: the snapshot is taken by the first call only.
LastDataFirstOnly(lastData, data, off, len, skipped, allSkipped) ==
    IF lastData = NoData THEN SaveFrame(data, off, len) ELSE lastData

\* Faulty variant: the snapshot is saved only when nothing was skipped.
LastDataWhenNoneSkipped(lastData, data, off, len, skipped, allSkipped) ==
    IF ~skipped THEN SaveFrame(data, off, len) ELSE lastData

\* if (!allSkipped) SaveFrame(...)
LastDataAfter(lastData, data, off, len, skipped, allSkipped) ==
    IF ~allSkipped THEN SaveFrame(data, off, len) ELSE lastData

\* The sink, the batch and the socket after PrepareData(channelData, messages).
PrepareResult(s, sink, data, msgs, sock, created) ==
    IF ~SinkEnabled(sink)
    THEN [sink |-> sink, msgs |-> msgs, sock |-> sock, created |-> created,
          reads |-> {}]
    ELSE
      LET create == NeedSocket(sock)
          r == UniverseLoop(s, sink, data, 0,
                 [ msgs |-> msgs, anHeaders |-> sink.anHeaders,
                   anIovecs |-> sink.anIovecs,
                   skipped |-> FALSE, allSkipped |-> TRUE,
                   cur |-> sink.startChannel - 1, start |-> 0, reads |-> {} ])
      IN [ sink |-> [sink EXCEPT
                       !.anHeaders = r.anHeaders,
                       !.anIovecs = r.anIovecs,
                       !.sequenceNumber =
                           SequenceNumberAfter(@, r.skipped, r.allSkipped),
                       !.skippedFrames =
                           SkippedFramesAfter(@, r.skipped, r.allSkipped),
                       !.lastData =
                           LastDataAfter(@, data, sink.startChannel - 1,
                                         r.start, r.skipped, r.allSkipped)],
           msgs |-> r.msgs,
           sock |-> IF create
                    THEN ForceSocket(sock, CreateArtNetSocket(created))
                    ELSE sock,
           created |-> IF create THEN created + 1 ELSE created,
           reads |-> r.reads \cup
                     (IF r.allSkipped THEN {}
                      ELSE {sink.startChannel - 1 + i : i \in 0..(r.start - 1)}) ]

----------------------------------------------------------------------------
(* ArtNetOutputData::PostPrepareData *)

SyncMsg ==
    [ name |-> <<"ArtNetSyncAddress", 0>>,
      iov |-> <<"ArtNetSyncIovecs", 0, 0>>,
      iovlen |-> 1,
      len |-> ARTNET_SYNC_PACKET_LENGTH ]

\* Faulty variant: only the first message of the batch is inspected.
SyncOnlyFirst(msgs) == msgs # <<>> /\ msgs[1].iov = SyncMsg.iov

\* The loop over msgs[ARTNET_DEST_PORT] looking for the sync iovec.
SyncAlreadyAdded(msgs) == \E i \in 1..Len(msgs) : msgs[i].iov = SyncMsg.iov

\* Faulty variant: the sync packet is put in front of the batch.
PushSyncFront(msgs) == <<SyncMsg>> \o msgs

\* msgs[ARTNET_DEST_PORT].push_back(msg)
PushSync(msgs) == Append(msgs, SyncMsg)

PostPrepareResult(sink, msgs) ==
    IF ~SinkEnabled(sink) THEN msgs
    ELSE IF SyncAlreadyAdded(msgs) THEN msgs
    ELSE PushSync(msgs)

----------------------------------------------------------------------------
(* ArtNetOutputData::GetRequiredChannelRange *)

\* Faulty variant: max is one past the range.
RangeOffByOne(sink) ==
    [ min |-> sink.startChannel - 1,
      max |-> sink.startChannel + (sink.channelCount * sink.universeCount) ]

GetRequiredChannelRange(sink) ==
    [ min |-> sink.startChannel - 1,
      max |-> sink.startChannel + (sink.channelCount * sink.universeCount) - 1 ]

----------------------------------------------------------------------------
(* The dispatch of one tick: every sink's PrepareData, then every sink's   *)
(* PostPrepareData, then the flush of the batch.                           *)

SinkIds == DOMAIN sinks

\* Channels some sink requires.
Required(sk) ==
    UNION { LET r == GetRequiredChannelRange(sk[s])
            IN {c \in 0..(MAX_CHANNELS - 1) : r.min <= c /\ c < r.max}
            : s \in DOMAIN sk }

\* The frames supplied: dark, one required channel lit, all of them lit.
Frames(sk) ==
    LET lit(S) == [c \in 0..(MAX_CHANNELS - 1) |-> IF c \in S THEN 255 ELSE 0]
    IN {lit({}), lit(Required(sk))} \cup {lit({c}) : c \in Required(sk)}

StartTick(frame) ==
    /\ ~tickOpen
    /\ tickOpen' = TRUE
    /\ prevFrame' = channelData
    /\ channelData' = frame
    /\ UNCHANGED <<sinks, messages, sendSocket, socketsCreated, prepared,
                   posted, reads, calls, nonArtnetVars>>

\* A tick of the bounded run.
BoundedTick ==
    /\ ticks < MaxTicks
    /\ ticks' = ticks + 1
    /\ \E frame \in Frames(sinks) : StartTick(frame)

\* A tick of the long run: stops once a sink has skipped MaxSkipped frames.
FreeTick ==
    /\ \A s \in SinkIds : sinks[s].skippedFrames < MaxSkipped
    /\ UNCHANGED ticks
    /\ \E frame \in Frames(sinks) : StartTick(frame)

PrepareData(s) ==
    /\ tickOpen
    /\ s \notin prepared
    /\ LET r == PrepareResult(s, sinks[s], channelData, messages, sendSocket,
                              socketsCreated)
       IN /\ sinks' = [sinks EXCEPT ![s] = r.sink]
          /\ messages' = r.msgs
          /\ sendSocket' = r.sock
          /\ socketsCreated' = r.created
          /\ reads' = [reads EXCEPT ![s] = r.reads]
          /\ calls' = [calls EXCEPT ![s] =
                 [n |-> (@.n + 1) % (SequenceModulus - 1),
                  quiet |-> @.quiet \/ (/\ SinkEnabled(sinks[s])
                                        /\ Len(r.msgs) = Len(messages))]]
    /\ prepared' = prepared \cup {s}
    /\ UNCHANGED <<channelData, prevFrame, tickOpen, posted, ticks,
                   nonArtnetVars>>

PostPrepareData(s) ==
    /\ tickOpen
    /\ prepared = SinkIds
    /\ s \notin posted
    /\ messages' = PostPrepareResult(sinks[s], messages)
    /\ posted' = posted \cup {s}
    /\ UNCHANGED <<sinks, channelData, prevFrame, sendSocket, socketsCreated,
                   tickOpen, prepared, ticks, reads, calls, nonArtnetVars>>

\* The batch is sent and cleared; the tick ends.
Flush ==
    /\ tickOpen
    /\ posted = SinkIds
    /\ messages' = <<>>
    /\ tickOpen' = FALSE
    /\ prepared' = {}
    /\ posted' = {}
    /\ UNCHANGED <<sinks, channelData, prevFrame, sendSocket, socketsCreated,
                   ticks, reads, calls, nonArtnetVars>>

----------------------------------------------------------------------------
(* FBMatrixOutput: the framebuffer matrix sink *)

\* Lines of one screen, bytes of one line, and the images PrepData can stage.
Yres == 2
LineLength == 3
MaxImage == 2
MaxSide == 2
MaxSends == 4

\* A SendData call that issues no FBIOPAN_DISPLAY.
NoPan == <<>>

\* FBMatrixOutput::FBMatrixOutput
\* The value of a byte no code has written yet.
Stale == -1

\* No staging buffer.
Unallocated == [o \in {} |-> Stale]

\* A matrix of one column that the device shows unscaled.
DefaultConfig ==
    [ width |-> 1, height |-> Yres, colorOrder |-> "BGR", invert |-> FALSE,
      scaling |-> "Hardware" ]

\* m_scaling for the configured scaling; other strings leave the default.
ScalingOf(sc) ==
    IF sc = "Hardware" THEN "HARDWARE"
    ELSE IF sc = "Software" THEN "SOFTWARE"
    ELSE IF sc = "None" THEN "NONE"
    ELSE "HARDWARE"

FBMatrixOutput ==
    [ state |-> "constructed",
      m_isDoubleBuffered |-> FALSE,
      m_topFrame |-> TRUE,
      yoffset |-> 0,
      m_screenSize |-> 0,
      m_frame |-> 0,
      frameAllocated |-> FALSE,
      fb0 |-> FALSE,            \* m_device == "/dev/fb0"
      origFits |-> TRUE,        \* m_vInfoOrig: virtual size = visible size
      config |-> DefaultConfig, \* the configuration Init is called with
      m_width |-> 0,
      m_height |-> 0,
      m_useRGB |-> FALSE,
      m_inverted |-> FALSE,
      m_scaling |-> "HARDWARE",
      m_bpp |-> 0,
      xres |-> 0,               \* m_vInfo.xres
      yres |-> 0,               \* m_vInfo.yres
      m_lineLength |-> 0,
      frame |-> Unallocated ]   \* the bytes of m_frame

\* The device before Init: original mode, nothing opened or mapped.
Device ==
    [ fdOpen |-> FALSE,
      mode |-> "orig",
      panYoffset |-> 0,
      ttyOpen |-> FALSE,
      console |-> "text",
      mapped |-> 0,
      mem |-> [half \in 0..1 |-> 0],
      xres |-> 1,               \* visible resolution of the current mode
      yres |-> Yres,
      lineLength |-> LineLength ]

\* What the device answers to Init's calls.
InitOutcomes ==
    [ openOk : BOOLEAN, getVOk : BOOLEAN, bpp : {8, 16, 24, 32},
      put1Ok : BOOLEAN, put2Ok : BOOLEAN, getFOk : BOOLEAN,
      countOk : BOOLEAN, fb0 : BOOLEAN, ttyOk : BOOLEAN,
      mmap1Ok : BOOLEAN, mmap2Ok : BOOLEAN, yoffset : {0, Yres},
      origFits : BOOLEAN ]

Failed(f, d) == [fb |-> [f EXCEPT !.state = "failed"], hw |-> d]

\* Faulty variant: a rejected double-height mode still counts as double
\* buffered.
DoubleBufferedAlways(put1Ok, mmap1Ok) == TRUE

\* m_isDoubleBuffered after the mode negotiation and the mapping.
DoubleBufferedAfterInit(put1Ok, mmap1Ok) == put1Ok /\ mmap1Ok

\* FBMatrixOutput::Init with the device answering e.
InitResult(f0, d, e) ==
    LET f == [f0 EXCEPT !.fb0 = e.fb0, !.origFits = e.origFits,
                        !.m_width = f0.config.width,
                        !.m_height = f0.config.height,
                        !.m_useRGB = (f0.config.colorOrder = "RGB"),
                        !.m_inverted = f0.config.invert,
                        !.m_scaling = ScalingOf(f0.config.scaling)]
        opened == [d EXCEPT !.fdOpen = e.openOk]
        closed == [opened EXCEPT !.fdOpen = FALSE]
    IN
    IF ~e.openOk \/ ~e.getVOk THEN Failed(f, closed)
    ELSE IF e.bpp \notin {32, 24, 16} THEN Failed(f, closed)
    ELSE IF ~e.put1Ok /\ ~e.put2Ok THEN Failed(f, closed)
    ELSE
      LET moded == [closed EXCEPT
                      !.fdOpen = TRUE,
                      !.mode = IF e.put1Ok THEN "double" ELSE "single",
                      !.panYoffset = e.yoffset]
      IN
      IF ~e.getFOk THEN Failed(f, [moded EXCEPT !.fdOpen = FALSE])
      ELSE IF ~e.countOk
        THEN Failed(f, [moded EXCEPT !.mode = "orig", !.fdOpen = FALSE])
      ELSE
        LET tty == IF e.fb0
                   THEN [moded EXCEPT
                           !.ttyOpen = e.ttyOk,
                           !.console = IF e.ttyOk THEN "graphics" ELSE @]
                   ELSE moded
            dbl == DoubleBufferedAfterInit(e.put1Ok, e.mmap1Ok)
            mapOk == (e.put1Ok /\ e.mmap1Ok) \/ e.mmap2Ok
            xres == IF f.m_scaling = "HARDWARE" THEN f.m_width ELSE d.xres
            yres == IF f.m_scaling = "HARDWARE" THEN f.m_height ELSE d.yres
            size == d.lineLength * yres
            obj == [f EXCEPT
                      !.m_isDoubleBuffered = dbl,
                      !.yoffset = e.yoffset,
                      !.m_bpp = e.bpp,
                      !.xres = xres,
                      !.yres = yres,
                      !.m_lineLength = d.lineLength,
                      !.m_screenSize = size,
                      !.frameAllocated = TRUE,
                      !.frame = [o \in 0..(size - 1) |-> Stale]]
        IN
        IF ~mapOk
        THEN Failed(obj, [tty EXCEPT !.mode = "orig", !.fdOpen = FALSE])
        ELSE [ fb |-> [obj EXCEPT !.state = "ready"],
               hw |-> [tty EXCEPT !.mapped = IF dbl THEN 2 ELSE 1] ]

Init_FB ==
    /\ fb.state = "constructed"
    /\ \E e \in InitOutcomes :
          LET r == InitResult(fb, hw, e)
          IN fb' = r.fb /\ hw' = r.hw
    /\ UNCHANGED <<fbLast, nonFbVars>>

\* The channel data of image img from m_startChannel on: a rising ramp
\* for odd img, a falling one for even img.
Image(f, img) ==
    [c \in 0..(f.m_width * f.m_height * 3 - 1) |->
        IF img % 2 = 1 THEN (c + img) % 256 ELSE (255 - c - img) % 256]

\* A store of v at byte o of the frame; a store outside it is an overrun.
Poke(a, o, v) ==
    IF o \in DOMAIN a.frame
    THEN [a EXCEPT !.frame[o] = v]
    ELSE [a EXCEPT !.overrun = TRUE]

\* memcpy of the n bytes src[0..n-1] to byte dst of the frame.
Memcpy(a, dst, src, n) ==
    [a EXCEPT
        !.frame = [o \in DOMAIN a.frame |->
                      IF o \in dst..(dst + n - 1) THEN src[o - dst]
                      ELSE a.frame[o]],
        !.overrun = @ \/ ~(dst..(dst + n - 1) \subseteq DOMAIN a.frame)]

\* The step of drow from one row to the next.
RowStep(f) == IF f.m_inverted THEN -1 ELSE 1

\* The rows and columns PrepData walks.
WalkHeight(f) == IF f.m_scaling = "SOFTWARE" THEN f.yres ELSE f.m_height
WalkWidth(f) == IF f.m_scaling = "SOFTWARE" THEN f.xres ELSE f.m_width

\* m_rgb565map[b][g][r] as Init fills it for the RGB565 bit fields.
Rgb565(b, g, r) == r + g * 32 + b * 2048

\* The 16-bit path: one row of m_width two-byte pixels.
RECURSIVE Pixels16(_, _, _, _, _)
Pixels16(f, data, a, d, x) ==
    IF x >= f.m_width THEN a
    ELSE
      LET sR == data[a.s]
          sG == data[a.s + 1]
          sB == data[a.s + 2]
          w == IF f.m_useRGB
               THEN Rgb565(sR \div 8, sG \div 4, sB \div 8)
               ELSE Rgb565(sB \div 8, sG \div 4, sR \div 8)
          lo == Poke(a, d, w % 256)
          hi == Poke(lo, d + 1, w \div 256)
      IN Pixels16(f, data, [hi EXCEPT !.s = @ + 3], d + 2, x + 1)

RECURSIVE Rows16(_, _, _, _)
Rows16(f, data, a, y) ==
    IF y >= f.m_height THEN a
    ELSE
      LET row == Pixels16(f, data, a, a.drow * f.m_lineLength, 0)
      IN Rows16(f, data, [row EXCEPT !.drow = @ + RowStep(f)], y + 1)

\* The source-index tables of the scaling path.
XPos(f) == [vx \in 0..WalkWidth(f) |-> (vx * f.m_width) \div WalkWidth(f)]
YPos(f) == [vy \in 0..WalkHeight(f) |-> (vy * f.m_height) \div WalkHeight(f)]

\* How far the source pointers move after destination column vx.
SourceStep(f, vx) ==
    IF f.m_scaling = "SOFTWARE"
    THEN IF XPos(f)[vx] # XPos(f)[vx + 1] THEN 3 ELSE 0
    ELSE 3

\* The scaling path: one row of pixels, red first or blue first.
RECURSIVE PixelsScaled(_, _, _, _)
PixelsScaled(f, data, a, vx) ==
    IF vx >= WalkWidth(f) THEN a
    ELSE
      LET add == f.m_bpp \div 8
          base == a.drow * f.m_lineLength + vx * add
          dR == base + (IF f.m_useRGB THEN 2 ELSE 0)
          dG == base + 1
          dB == base + (IF f.m_useRGB THEN 0 ELSE 2)
          r == Poke(a, dR, data[a.s])
          g == Poke(r, dG, data[a.s + 1])
          b == Poke(g, dB, data[a.s + 2])
      IN PixelsScaled(f, data, [b EXCEPT !.s = @ + SourceStep(f, vx)], vx + 1)

\* The rows after vy whose source row is that of vy: each is a copy of the
\* row before it.
RECURSIVE CopyRows(_, _)
CopyRows(f, a) ==
    IF YPos(f)[a.vy] = YPos(f)[a.vy + 1] /\ a.vy < WalkHeight(f)
    THEN LET src == a.drow * f.m_lineLength
             row == [k \in 0..(f.m_lineLength - 1) |->
                       IF src + k \in DOMAIN a.frame THEN a.frame[src + k]
                       ELSE Stale]
             dst == (a.drow + RowStep(f)) * f.m_lineLength
             copied == Memcpy(a, dst, row, f.m_lineLength)
         IN CopyRows(f, [copied EXCEPT !.drow = @ + RowStep(f),
                                       !.vy = @ + 1])
    ELSE a

RECURSIVE RowsScaled(_, _, _)
RowsScaled(f, data, a) ==
    IF a.vy >= WalkHeight(f) THEN a
    ELSE
      LET row == PixelsScaled(f, data, a, 0)
          dup == IF f.m_scaling = "SOFTWARE" THEN CopyRows(f, row) ELSE row
      IN RowsScaled(f, data, [dup EXCEPT !.drow = @ + RowStep(f),
                                         !.vy = @ + 1])

\* The direct path: each row of m_width * 3 bytes is copied as it is.
RECURSIVE RowsCopied(_, _, _, _, _)
RowsCopied(f, data, a, dst, y) ==
    IF y >= f.m_height THEN a
    ELSE
      LET istride == f.m_width * 3
          row == [k \in 0..(istride - 1) |-> data[y * istride + k]]
      IN RowsCopied(f, data, Memcpy(a, dst, row, istride),
                    dst + RowStep(f) * f.m_lineLength, y + 1)

\* The frame after PrepData of data, and whether a store left the frame.
Staged(f, data) ==
    LET height == WalkHeight(f)
        a == [ frame |-> f.frame, overrun |-> FALSE, s |-> 0, vy |-> 0,
               drow |-> IF f.m_inverted THEN height - 1 ELSE 0 ]
    IN IF f.m_bpp = 16 THEN Rows16(f, data, a, 0)
       ELSE IF f.m_useRGB \/ f.m_bpp = 32 \/ f.m_scaling = "SOFTWARE"
         THEN RowsScaled(f, data, a)
       ELSE RowsCopied(f, data, a,
                       IF f.m_inverted
                       THEN f.m_lineLength * (f.m_height - 1) ELSE 0, 0)

\* FBMatrixOutput::PrepData: the channel data is staged in m_frame.  A
\* store outside m_frame corrupts the heap; nothing is modelled after it.
PrepData(img) ==
    /\ fb.state = "ready"
    /\ LET r == Staged(fb, Image(fb, img))
       IN fb' = [fb EXCEPT !.m_frame = img,
                           !.frame = r.frame,
                           !.state = IF r.overrun THEN "corrupted" ELSE @]
    /\ UNCHANGED <<hw, fbLast, nonFbVars>>

\* Faulty variant: the bottom half is chosen while m_topFrame is set.
UseBottomInverted(f) == f.m_isDoubleBuffered /\ f.m_topFrame

\* m_isDoubleBuffered && !m_topFrame
UseBottom(f) == f.m_isDoubleBuffered /\ ~f.m_topFrame

\* Faulty variant: m_topFrame is left as it is.
TopFrameKept(topFrame) == topFrame

\* m_topFrame = !m_topFrame
TopFrameAfter(topFrame) == ~topFrame

\* FBMatrixOutput::SendData
SendResult(f, d) ==
    LET bottom == UseBottom(f)
        dst == IF bottom THEN f.m_screenSize ELSE 0
        yoff == IF bottom THEN f.yres ELSE 0
        copied == [d EXCEPT !.mem[dst \div f.m_screenSize] = f.m_frame]
    IN [ fb |-> [f EXCEPT !.yoffset = yoff,
                          !.m_topFrame = TopFrameAfter(@)],
         hw |-> IF f.m_isDoubleBuffered
                THEN [copied EXCEPT !.panYoffset = yoff]
                ELSE copied,
         dst |-> dst,
         pan |-> IF f.m_isDoubleBuffered THEN <<yoff>> ELSE NoPan ]

SendData ==
    /\ fb.state = "ready"
    /\ fbLast.n < MaxSends
    /\ LET r == SendResult(fb, hw)
       IN /\ fb' = r.fb
          /\ hw' = r.hw
          /\ fbLast' = [ n |-> fbLast.n + 1,
                         dst |-> r.dst,
                         pan |-> r.pan,
                         shownAtCopy |-> hw.panYoffset ]
    /\ UNCHANGED nonFbVars

\* The mode after Close: only /dev/fb0 gets m_vInfoOrig back, with its
\* virtual size overwritten by the visible size ("trimmed" when they
\* differed).
ModeAfterClose(f, mode, putOk) ==
    IF ~f.fb0 \/ ~putOk THEN mode
    ELSE IF f.origFits THEN "orig" ELSE "trimmed"

\* FBMatrixOutput::Close, with the mode ioctl succeeding or not.
CloseResult(f, d, putOk) ==
    [ fb |-> [f EXCEPT !.state = "closed", !.frameAllocated = FALSE,
                       !.frame = Unallocated],
      hw |-> [d EXCEPT
                !.mapped = 0,
                !.console = IF d.ttyOpen THEN "text" ELSE @,
                !.ttyOpen = FALSE,
                !.mode = ModeAfterClose(f, @, putOk),
                !.fdOpen = FALSE] ]

Close_FB ==
    /\ fb.state = "ready"
    /\ \E putOk \in BOOLEAN :
          LET r == CloseResult(fb, hw, putOk)
          IN fb' = r.fb /\ hw' = r.hw
    /\ UNCHANGED <<fbLast, nonFbVars>>

----------------------------------------------------------------------------
(* NetworkMonitor *)

MaxIds == 3         \* ids handed out by registerCallback: 0..MaxIds-1
MaxQueue == 2       \* datagrams the kernel queues on the socket
MaxDecodeQueue == 1 \* the same, where every kind of datagram is sent

End == <<>>
NoEvent == <<>>

\* Netlink messages: the fields the handler reads.  name is what
\* if_indextoname gives for the message's interface index, "" when it fails.
Msg(type, running, family, name) ==
    [type |-> type, running |-> running, family |-> family, name |-> name]

LinkMsgs ==
    {Msg("RTM_NEWLINK", r, "AF_UNSPEC", "eth0") : r \in BOOLEAN}
    \cup {Msg("RTM_DELLINK", TRUE, "AF_UNSPEC", "eth0"),
          Msg("RTM_DELLINK", FALSE, "AF_UNSPEC", "")}

AddrMsgs ==
    {Msg(t, FALSE, f, "eth0") :
        t \in {"RTM_NEWADDR", "RTM_DELADDR"}, f \in {"AF_INET", "AF_INET6"}}

OtherMsgs ==
    {Msg(t, FALSE, "AF_UNSPEC", "eth0") :
        t \in {"NLMSG_DONE", "NLMSG_ERROR", "RTM_NEWROUTE"}}

LinkUp == Msg("RTM_NEWLINK", TRUE, "AF_UNSPEC", "eth0")
AddrRemoved == Msg("RTM_DELADDR", FALSE, "AF_INET", "eth0")

\* Datagrams of one message, and of two with a link message second.
AllDatagrams ==
    {<<m>> : m \in LinkMsgs \cup AddrMsgs \cup OtherMsgs}
    \cup {<<m, LinkUp>> : m \in OtherMsgs \cup AddrMsgs}

FewDatagrams == {<<LinkUp>>, <<AddrRemoved>>}

\* NetworkMonitor::Init: the socket and what became of it.
SocketAfterInit(socketOk, bindOk) ==
    IF ~socketOk THEN "bad"
    ELSE IF ~bindOk THEN "unbound"
    ELSE "ok"

\* recvmsg(nl_socket, &msg, MSG_DONTWAIT): the size of the datagram at the
\* head of the queue, -1 when the socket is bad or nothing is queued.
RecvMsg(sock, queue) ==
    IF sock = "ok" /\ queue # <<>> THEN Len(Head(queue)) ELSE -1

\* Faulty variant: any nonzero status keeps the loop running.
LoopRunsNonZero(status) == status # 0

\* while (status > 0)
LoopRuns(status) == status > 0

\* Faulty variant: one read per invocation.
StatusNoReread(sock, queue) == 0

\* status = recvmsg(...) at the end of the loop body.
StatusAfterBuffer(sock, queue) == RecvMsg(sock, queue)

\* Faulty variant: address messages of every family are reported.
EventOfAnyFamily(m) ==
    IF m.type \in {"RTM_NEWLINK", "RTM_DELLINK"}
    THEN <<[kind |-> IF m.type = "RTM_NEWLINK" THEN "NEW_LINK"
                     ELSE "DEL_LINK",
            up |-> IF m.running THEN 1 ELSE 0,
            name |-> m.name]>>
    ELSE IF m.type \in {"RTM_NEWADDR", "RTM_DELADDR"}
    THEN <<[kind |-> IF m.type = "RTM_NEWADDR" THEN "NEW_ADDR"
                     ELSE "DEL_ADDR",
            up |-> IF m.type = "RTM_NEWADDR" THEN 1 ELSE 0,
            name |-> m.name]>>
    ELSE NoEvent

\* The switch on nlmsg_type: the arguments of callCallbacks, if it is called.
EventOf(m) ==
    IF m.type \in {"RTM_NEWLINK", "RTM_DELLINK"}
    THEN <<[kind |-> IF m.type = "RTM_NEWLINK" THEN "NEW_LINK"
                     ELSE "DEL_LINK",
            up |-> IF m.running THEN 1 ELSE 0,
            name |-> m.name]>>
    ELSE IF m.type \in {"RTM_NEWADDR", "RTM_DELADDR"}
    THEN IF m.family = "AF_INET"
         THEN <<[kind |-> IF m.type = "RTM_NEWADDR" THEN "NEW_ADDR"
                          ELSE "DEL_ADDR",
                 up |-> IF m.type = "RTM_NEWADDR" THEN 1 ELSE 0,
                 name |-> m.name]>>
         ELSE NoEvent
    ELSE NoEvent

\* case NLMSG_DONE, case NLMSG_ERROR: OK = false
EndsRead(m) == m.type \in {"NLMSG_DONE", "NLMSG_ERROR"}

\* NetworkMonitor::registerCallback
registerCallback(cbs, cur) ==
    [callbacks |-> cbs \cup {cur}, curId |-> cur + 1, id |-> cur]

\* NetworkMonitor::removeCallback
removeCallback(cbs, id) == cbs \ {id}

\* std::map iteration order: begin() and the successor of id.
Begin(cbs) ==
    IF cbs = {} THEN End
    ELSE <<CHOOSE i \in cbs : \A j \in cbs : i <= j>>

Successor(cbs, id) == Begin({j \in cbs : j > id})

NoHistory ==
    [ polled |-> FALSE,         \* the handler was invoked
      queuedAtStart |-> 0,      \* datagrams queued when it was invoked
      pending |-> 0,            \* of those, the ones not read yet
      events |-> <<>>,          \* callCallbacks calls made for buf
      startSet |-> {},          \* ids registered when the dispatch began
      removed |-> {},           \* ids removed during the dispatch
      invoked |-> <<>>,         \* callbacks invoked by the dispatch, with
                                \* the event passed; live: still registered
      touchedInvalid |-> FALSE ]\* an erased map node was used

MonitorNew ==
    /\ callbacks = {}
    /\ curId = 0
    /\ nlSocket = "unset"
    /\ kernel = <<>>
    /\ pc = "new"
    /\ buf = <<>>
    /\ h = 1
    /\ OK = TRUE
    /\ ev = NoEvent
    /\ it = End
    /\ nmHist = NoHistory

MonitorSubscribed ==
    /\ callbacks = registerCallback({}, 0).callbacks
    /\ curId = registerCallback({}, 0).curId
    /\ nlSocket = "unset"
    /\ kernel = <<>>
    /\ pc = "new"
    /\ buf = <<>>
    /\ h = 1
    /\ OK = TRUE
    /\ ev = NoEvent
    /\ it = End
    /\ nmHist = NoHistory

\* NetworkMonitor::Init: failures are logged, the handler is installed.
Init_NM ==
    /\ pc = "new"
    /\ \E socketOk \in BOOLEAN, bindOk \in BOOLEAN :
          nlSocket' = SocketAfterInit(socketOk, bindOk)
    /\ pc' = "idle"
    /\ UNCHANGED <<callbacks, curId, kernel, buf, h, OK, ev, it, nmHist,
                   nonMonVars>>

\* The kernel queues a notification for a bound socket.
KernelEmit(datagrams, max) ==
    /\ nlSocket = "ok"
    /\ pc # "crashed"
    /\ Len(kernel) < max
    /\ \E d \in datagrams : kernel' = Append(kernel, d)
    /\ UNCHANGED <<callbacks, curId, nlSocket, pc, buf, h, OK, ev, it, nmHist,
                   nonMonVars>>

\* A caller registers a callback outside the dispatch.
Register ==
    /\ pc \in {"new", "idle"}
    /\ curId < MaxIds
    /\ LET r == registerCallback(callbacks, curId)
       IN callbacks' = r.callbacks /\ curId' = r.curId
    /\ UNCHANGED <<nlSocket, kernel, pc, buf, h, OK, ev, it, nmHist,
                   nonMonVars>>

\* A caller removes a callback outside the dispatch.
Remove ==
    /\ pc \in {"new", "idle"}
    /\ \E id \in callbacks : callbacks' = removeCallback(callbacks, id)
    /\ UNCHANGED <<curId, nlSocket, kernel, pc, buf, h, OK, ev, it, nmHist,
                   nonMonVars>>

\* The loop test after a recvmsg that returned status: the body starts on
\* the datagram read, or the handler returns.  A body entered without a
\* datagram finds whatever the stack holds in buf.
LoopTest(status, hist, datagrams) ==
    IF LoopRuns(status)
    THEN /\ pc' = "decode"
         /\ IF status > 0
            THEN buf' = Head(kernel) /\ kernel' = Tail(kernel)
            ELSE buf' \in datagrams /\ UNCHANGED kernel
         /\ h' = 1
         /\ OK' = TRUE
         /\ nmHist' = [hist EXCEPT
                         !.events = <<>>,
                         !.pending = IF @ > 0 /\ status > 0 THEN @ - 1 ELSE @]
    ELSE /\ pc' = "idle"
         /\ nmHist' = hist
         /\ UNCHANGED <<kernel, buf, h, OK>>

\* The multiplexer invokes the handler: the first recvmsg.
PollHandler(datagrams) ==
    /\ pc = "idle"
    /\ LoopTest(RecvMsg(nlSocket, kernel),
                [nmHist EXCEPT !.polled = TRUE,
                               !.queuedAtStart = Len(kernel),
                               !.pending = Len(kernel)],
                datagrams)
    /\ UNCHANGED <<callbacks, curId, nlSocket, ev, it, nonMonVars>>

\* One pass of the for loop over the messages in buf.
Decode ==
    /\ pc = "decode"
    /\ OK /\ h <= Len(buf)
    /\ LET m == buf[h]
       IN IF EndsRead(m)
          THEN /\ OK' = FALSE
               /\ h' = h + 1
               /\ UNCHANGED <<pc, ev, it, nmHist>>
          ELSE IF EventOf(m) # NoEvent
          THEN /\ ev' = EventOf(m)[1]
               /\ it' = Begin(callbacks)
               /\ pc' = "dispatch"
               /\ nmHist' = [nmHist EXCEPT
                               !.events = Append(@, EventOf(m)[1]),
                               !.startSet = callbacks,
                               !.removed = {},
                               !.invoked = <<>>]
               /\ UNCHANGED <<OK, h>>
          ELSE /\ h' = h + 1
               /\ UNCHANGED <<OK, pc, ev, it, nmHist>>
    /\ UNCHANGED <<callbacks, curId, nlSocket, kernel, buf, nonMonVars>>

\* The messages of buf are done with: the next recvmsg.
ReadAgain(datagrams) ==
    /\ pc = "decode"
    /\ ~OK \/ h > Len(buf)
    /\ LoopTest(StatusAfterBuffer(nlSocket, kernel), nmHist, datagrams)
    /\ UNCHANGED <<callbacks, curId, nlSocket, ev, it, nonMonVars>>

\* callCallbacks: the callback at the loop's position is invoked and does
\* one of acts, then the loop advances.  Advancing from an erased node is
\* undefined: the loop goes on, ends, or the process crashes.
Invoke(acts) ==
    /\ pc = "dispatch"
    /\ it # End
    /\ LET id == it[1]
           called == [nmHist EXCEPT
                        !.invoked = Append(@, [id |-> id, ev |-> ev,
                                               live |-> id \in callbacks])]
       IN \E act \in acts :
            \/ /\ act = "none"
               /\ it' = Successor(callbacks, id)
               /\ nmHist' = called
               /\ UNCHANGED <<callbacks, curId, pc>>
            \/ /\ act = "removeOther"
               /\ \E j \in callbacks \ {id} :
                    /\ callbacks' = removeCallback(callbacks, j)
                    /\ it' = Successor(callbacks', id)
                    /\ nmHist' = [called EXCEPT !.removed = @ \cup {j}]
               /\ UNCHANGED <<curId, pc>>
            \/ /\ act = "register"
               /\ curId < MaxIds
               /\ LET r == registerCallback(callbacks, curId)
                  IN /\ callbacks' = r.callbacks
                     /\ curId' = r.curId
                     /\ it' = Successor(r.callbacks, id)
               /\ nmHist' = called
               /\ UNCHANGED pc
            \/ /\ act = "removeSelf"
               /\ callbacks' = removeCallback(callbacks, id)
               /\ nmHist' = [called EXCEPT !.removed = @ \cup {id},
                                           !.touchedInvalid = TRUE]
               /\ \/ it' = Successor(callbacks', id) /\ UNCHANGED pc
                  \/ it' = End /\ UNCHANGED pc
                  \/ pc' = "crashed" /\ UNCHANGED it
               /\ UNCHANGED curId
    /\ UNCHANGED <<nlSocket, kernel, buf, h, OK, ev, nonMonVars>>

\* callCallbacks returns to the for loop, which moves to the next message.
Return ==
    /\ pc = "dispatch"
    /\ it = End
    /\ pc' = "decode"
    /\ h' = h + 1
    /\ UNCHANGED <<callbacks, curId, nlSocket, kernel, buf, OK, ev, it, nmHist,
                   nonMonVars>>

----------------------------------------------------------------------------
(* SpixelsOutput *)

MaxStrings == 2         \* entries of config["outputs"]
MaxOutputChannels == 6  \* m_outputChannels of a string
MaxByte == 3            \* channel bytes are 0..MaxByte

\* Size of the buffer the strings map into: string i (from 0) starts at
\* channel i * MaxOutputChannels.
SpxBufferSize == MaxStrings * MaxOutputChannels

\* The channel limit: the strings' own channels lie below it, the buffer
\* goes on past it far enough for a string that starts just below it.
FPPD_MAX_CHANNELS == SpxBufferSize
SpxChannels == 0..(FPPD_MAX_CHANNELS + MaxOutputChannels - 2)

\* Brightness tables, indexed from 1 by the byte value plus 1.
IdentityTable == [v \in 1..(MaxByte + 1) |-> v - 1]
InvertedTable == [v \in 1..(MaxByte + 1) |-> MaxByte - (v - 1)]
HalvedTable == [v \in 1..(MaxByte + 1) |-> (v - 1) \div 2]

\* The tables of a string, one per output channel.
BrightnessMaps(kind, count) ==
    [p \in 1..count |->
        CASE kind = "identity" -> IdentityTable
          [] kind = "inverted" -> InvertedTable
          [] OTHER -> IF p % 3 = 1 THEN HalvedTable
                      ELSE IF p % 3 = 2 THEN IdentityTable
                      ELSE InvertedTable]

\* The channel each output channel is fed from, in wiring order or reversed.
OutputMap(start, count, reversed) ==
    [p \in 1..count |->
        IF reversed THEN start + count - p ELSE start + p - 1]

\* An entry of config["outputs"] as PixelString::Init and the protocol
\* test see it.
OutputConfigs ==
    { o \in [ initOk : BOOLEAN, outputChannels : 0..MaxOutputChannels,
              reversed : BOOLEAN,
              tables : {"identity", "inverted", "mixed"},
              protocolKnown : BOOLEAN,
              atLimit : BOOLEAN ] :     \* starts on the last channel below
                                        \* the limit
        /\ (~o.initOk \/ ~o.protocolKnown \/ o.outputChannels < 3
               \/ o.atLimit) =>
               (~o.reversed /\ o.tables = "identity")
        \* what the loop never looks at is left at one value
        /\ ~o.initOk => (o.outputChannels = 0 /\ o.protocolKnown)
        /\ (~o.initOk \/ ~o.protocolKnown \/ o.outputChannels < 3)
               => ~o.atLimit
        /\ ~o.protocolKnown => o.outputChannels \in {0, 3}
        \* one map order for each kind of table
        /\ o.reversed <=> o.tables = "inverted" }

\* PixelString after a successful PixelString::Init of entry i (from 0).
PixelString(o, i) ==
    [ m_outputChannels |-> o.outputChannels,
      m_outputMap |-> OutputMap(IF o.atLimit THEN FPPD_MAX_CHANNELS - 1
                                ELSE i * MaxOutputChannels,
                                o.outputChannels, o.reversed),
      m_brightnessMaps |-> BrightnessMaps(o.tables, o.outputChannels) ]

\* A strip of the given number of pixels, all dark.
CreateStrip(pixels) == [pix \in 0..(pixels - 1) |-> <<0, 0, 0>>]

\* SpixelsOutput::SpixelsOutput
SpixelsOutput ==
    [ state |-> "constructed", m_strings |-> <<>>, m_strips |-> <<>> ]

NoPrepData ==
    [ data |-> <<>>, tableReads |-> <<>>, pixelsSet |-> <<>>,
      channelReads |-> <<>> ]

NoRanges == [ reported |-> FALSE, ranges |-> <<>> ]

SpixelsNew ==
    /\ spx = SpixelsOutput
    /\ spxData = NoPrepData
    /\ spxRanges = NoRanges

\* The loop of SpixelsOutput::Init over config["outputs"] from entry i on.
RECURSIVE InitLoop(_, _, _)
InitLoop(outputs, i, obj) ==
    IF i > Len(outputs) THEN [obj EXCEPT !.state = "ready"]
    ELSE
      LET o == outputs[i]
          pixels == o.outputChannels \div 3
      IN IF ~o.initOk THEN [obj EXCEPT !.state = "failed"]
         ELSE IF pixels = 0 THEN InitLoop(outputs, i + 1, obj)
         ELSE IF ~o.protocolKnown THEN [obj EXCEPT !.state = "failed"]
         ELSE InitLoop(outputs, i + 1,
                  [obj EXCEPT
                     !.m_strings = Append(@, PixelString(o, i - 1)),
                     !.m_strips = Append(@, CreateStrip(pixels))])

Init_SPX ==
    /\ spx.state = "constructed"
    /\ \E n \in 1..MaxStrings : \E outputs \in [1..n -> OutputConfigs] :
          spx' = InitLoop(outputs, 1, spx)
    /\ UNCHANGED <<spxData, spxRanges, nonSpxVars>>

\* The show buffers given to PrepData: dark, full, and two ramps.
SpxBuffers ==
    { [c \in SpxChannels |-> 0],
      [c \in SpxChannels |-> MaxByte],
      [c \in SpxChannels |-> c % (MaxByte + 1)],
      [c \in SpxChannels |-> (c * MaxByte) % (MaxByte + 1)] }

\* Faulty variant: every component goes through the table of channel 0.
ComponentFirstTable(ps, data, p) ==
    ps.m_brightnessMaps[1][data[ps.m_outputMap[p + 1]] + 1]

\* ps->m_brightnessMaps[p][channelData[ps->m_outputMap[inCh]]], p = inCh
Component(ps, data, p) ==
    ps.m_brightnessMaps[p + 1][data[ps.m_outputMap[p + 1]] + 1]

\* Passes of the pixel loop of a string: pix = 0, 1, ... while 3 * pix is
\* below m_outputChannels.
Passes(ps) == (ps.m_outputChannels + 2) \div 3

\* The table and map indices the loop reads, and the pixels it sets.
TableReads(ps) == 0..(3 * Passes(ps) - 1)
PixelsSet(ps) == 0..(Passes(ps) - 1)

\* The channels of the buffer the loop reads through the entries the output
\* map has.
ChannelReads(ps) ==
    {ps.m_outputMap[p + 1] : p \in {q \in TableReads(ps) :
                                      q < ps.m_outputChannels}}

\* The strip after the pixel loop of its string: every pixel the strip has
\* is set from its three components.
StripAfter(ps, strip, data) ==
    [pix \in DOMAIN strip |->
        IF pix \in PixelsSet(ps)
        THEN <<Component(ps, data, 3 * pix),
               Component(ps, data, 3 * pix + 1),
               Component(ps, data, 3 * pix + 2)>>
        ELSE strip[pix]]

\* The pixel loop ran past the tables or past the strip.
OutOfBounds(ps, strip) ==
    \/ \E p \in TableReads(ps) : p >= ps.m_outputChannels
    \/ \E pix \in PixelsSet(ps) : pix \notin DOMAIN strip

\* SpixelsOutput::PrepData.  Reading past the tables or setting a pixel
\* past the strip is undefined: the call goes on or the process crashes.
PrepData_SPX ==
    /\ spx.state = "ready"
    /\ \E data \in SpxBuffers :
          LET n == Len(spx.m_strings)
              done == [spx EXCEPT
                         !.m_strips =
                            [s \in 1..n |->
                                StripAfter(spx.m_strings[s], @[s], data)]]
          IN /\ \/ spx' = done
                \/ /\ \E s \in 1..n :
                        OutOfBounds(spx.m_strings[s], spx.m_strips[s])
                   /\ spx' = [spx EXCEPT !.state = "crashed"]
             /\ spxData' =
                  [ data |-> data,
                    tableReads |->
                        [s \in 1..n |-> TableReads(spx.m_strings[s])],
                    pixelsSet |->
                        [s \in 1..n |-> PixelsSet(spx.m_strings[s])],
                    channelReads |->
                        [s \in 1..n |-> ChannelReads(spx.m_strings[s])] ]
    /\ UNCHANGED <<spxRanges, nonSpxVars>>

\* The channels of a string's output map below the limit.
InLimit(ps) ==
    {ps.m_outputMap[p] : p \in 1..ps.m_outputChannels} \cap
        0..(FPPD_MAX_CHANNELS - 1)

Least(S) == CHOOSE c \in S : \A d \in S : c <= d
Greatest(S) == CHOOSE c \in S : \A d \in S : c >= d

\* The pass of GetRequiredChannelRanges over one string: min starts at the
\* limit, max at 0, and the range is added if (min < max).
RangeOfString(ps) ==
    LET min == IF InLimit(ps) = {} THEN FPPD_MAX_CHANNELS
               ELSE Least(InLimit(ps))
        max == IF InLimit(ps) = {} THEN 0 ELSE Greatest(InLimit(ps))
    IN IF min < max THEN <<[min |-> min, max |-> max]>> ELSE <<>>

\* SpixelsOutput::GetRequiredChannelRanges
GetRequiredChannelRanges ==
    /\ spx.state = "ready"
    /\ ~spxRanges.reported
    /\ spxRanges' =
          [ reported |-> TRUE,
            ranges |-> [s \in 1..Len(spx.m_strings) |->
                           RangeOfString(spx.m_strings[s])] ]
    /\ UNCHANGED <<spx, spxData, nonSpxVars>>

----------------------------------------------------------------------------
(* Specifications *)

\* Sink configurations: the options the constructor reads.
Configs(starts, counts, universes) ==
    { c \in [ startChannel : starts, channelCount : counts,
              hasUniverseCount : BOOLEAN,
              universeCount : universes \cup {-1, 0},
              type : {ARTNET_TYPE_BROADCAST, ARTNET_TYPE_UNICAST},
              active : BOOLEAN, resolves : BOOLEAN,
              universe : {0} ] :
        /\ c.hasUniverseCount \/ c.universeCount = 0
        /\ c.type = ARTNET_TYPE_UNICAST \/ c.resolves }

\* Universe ids at the ends of the 16-bit range and across a byte boundary.
UniverseIds == {0, 255, 256 * 256 - MaxUniverseCount}

\* The configurations cfgs with every universe id of ids.
WithUniverse(cfgs, ids) ==
    {[c EXCEPT !.universe = u] : c \in cfgs, u \in ids}

FBIdle ==
    /\ fb = FBMatrixOutput
    /\ hw = Device
    /\ fbLast = [n |-> 0, dst |-> 0, pan |-> NoPan, shownAtCopy |-> 0]

ArtNetStart(cfgs) ==
    /\ sinks = [s \in DOMAIN cfgs |-> ArtNetOutputData(cfgs[s])]
    /\ channelData = NoFrame
    /\ prevFrame = NoFrame
    /\ messages = <<>>
    /\ sendSocket = NoSocket
    /\ socketsCreated = 0
    /\ tickOpen = FALSE
    /\ prepared = {}
    /\ posted = {}
    /\ ticks = 0
    /\ reads = [s \in DOMAIN cfgs |-> {}]
    /\ calls = [s \in DOMAIN cfgs |-> [n |-> 0, quiet |-> FALSE]]

\* One sink of any configuration, a bounded number of ticks.
ArtNetIdle ==
    ArtNetStart([s \in {1} |-> CHOOSE c \in Configs({1}, {1}, {}) :
                                     c.active /\ c.resolves
                                     /\ c.type = ARTNET_TYPE_BROADCAST])

InitSink ==
    /\ \E c \in Configs(1..MaxStartChannel, 1..MaxChannelCount,
                         1..MaxUniverseCount) :
          ArtNetStart([s \in {1} |-> c])
    /\ FBIdle
    /\ MonitorNew
    /\ SpixelsNew

\* Matrices and screens of every size up to MaxSide, scaled in software.
ScaleConfigs ==
    [ width : 1..MaxSide, height : 1..MaxSide, colorOrder : {"RGB", "BGR"},
      invert : BOOLEAN, scaling : {"Software"} ]

\* A screen of xres by yres whose lines hold four bytes for each pixel.
Screen(xres, yres) ==
    [Device EXCEPT !.xres = xres, !.yres = yres, !.lineLength = 4 * xres]

InitScale ==
    /\ ArtNetIdle
    /\ \E c \in ScaleConfigs : fb = [FBMatrixOutput EXCEPT !.config = c]
    /\ \E xres \in 1..MaxSide, yres \in 1..MaxSide : hw = Screen(xres, yres)
    /\ fbLast = [n |-> 0, dst |-> 0, pan |-> NoPan, shownAtCopy |-> 0]
    /\ MonitorNew
    /\ SpixelsNew

\* One sink with every kind of universe id.
InitHeader ==
    /\ \E c \in WithUniverse(Configs({1, MaxStartChannel}, 1..MaxChannelCount,
                                      {MaxUniverseCount}), UniverseIds) :
          ArtNetStart([s \in {1} |-> c])
    /\ FBIdle
    /\ MonitorNew
    /\ SpixelsNew

\* One enabled sink run for as long as the sequence counter needs to wrap.
InitSeq ==
    /\ \E c \in Configs({1}, {1}, {MaxUniverseCount}) :
          /\ c.hasUniverseCount /\ c.universeCount = MaxUniverseCount
          /\ c.active /\ c.resolves
          /\ ArtNetStart([s \in {1} |-> c])
    /\ FBIdle
    /\ MonitorNew
    /\ SpixelsNew

\* Several sinks on the same batch, each enabled or not.
InitBatch ==
    /\ \E cfgs \in [1..NumSinks -> Configs({1}, {1}, {})] :
          ArtNetStart(cfgs)
    /\ FBIdle
    /\ MonitorNew
    /\ SpixelsNew

InitFB ==
    /\ ArtNetIdle
    /\ FBIdle
    /\ MonitorNew
    /\ SpixelsNew

InitMonitor ==
    /\ ArtNetIdle
    /\ FBIdle
    /\ MonitorNew
    /\ SpixelsNew

InitSpixels ==
    /\ ArtNetIdle
    /\ FBIdle
    /\ MonitorNew
    /\ SpixelsNew

\* The monitor with one callback registered before Init.
InitDecode ==
    /\ ArtNetIdle
    /\ FBIdle
    /\ MonitorSubscribed
    /\ SpixelsNew

TickSteps ==
    \/ \E s \in SinkIds : PrepareData(s)
    \/ \E s \in SinkIds : PostPrepareData(s)
    \/ Flush

NextBounded == BoundedTick \/ TickSteps
NextSeq == FreeTick \/ TickSteps
NextFB ==
    \/ Init_FB
    \/ \E img \in 1..MaxImage : PrepData(img)
    \/ SendData
    \/ Close_FB

CallbackActs == {"none", "removeSelf", "removeOther", "register"}

NextMonitor ==
    \/ Init_NM
    \/ KernelEmit(FewDatagrams, MaxQueue)
    \/ Register
    \/ Remove
    \/ PollHandler(FewDatagrams)
    \/ Decode
    \/ ReadAgain(FewDatagrams)
    \/ Invoke(CallbackActs)
    \/ Return

\* Every kind of datagram, dispatched to callbacks that leave the registry
\* alone.
NextDecode ==
    \/ Init_NM
    \/ KernelEmit(AllDatagrams, MaxDecodeQueue)
    \/ PollHandler(AllDatagrams)
    \/ Decode
    \/ ReadAgain(AllDatagrams)
    \/ Invoke({"none"})
    \/ Return

\* The steps of a running handler invocation: straight-line code, so one
\* of them is taken whenever the handler is inside its loops.
HandlerStep ==
    \/ Decode
    \/ ReadAgain(FewDatagrams)
    \/ Invoke({"none"})
    \/ Return

\* The handler under a stream of notifications.
NextStorm ==
    \/ Init_NM
    \/ KernelEmit(FewDatagrams, MaxQueue)
    \/ PollHandler(FewDatagrams)
    \/ HandlerStep

NextSpixels ==
    \/ Init_SPX
    \/ GetRequiredChannelRanges
    \/ PrepData_SPX

SpecSink == InitSink /\ [][NextBounded]_vars
SpecScale == InitScale /\ [][NextFB]_vars
SpecHeader == InitHeader /\ [][NextBounded]_vars
SpecSeq == InitSeq /\ [][NextSeq]_vars
SpecBatch == InitBatch /\ [][NextBounded]_vars
SpecFB == InitFB /\ [][NextFB]_vars
SpecMonitor == InitMonitor /\ [][NextMonitor]_vars
SpecDecode == InitDecode /\ [][NextDecode]_vars
SpecStorm == InitDecode /\ [][NextStorm]_vars /\ WF_vars(HandlerStep)
SpecSpixels == InitSpixels /\ [][NextSpixels]_vars

----------------------------------------------------------------------------
(* Properties *)

\* PrepareData of sink s runs in this step.
PrepareStep(s) == s \notin prepared /\ s \in prepared'

Universes(s) == 0..(sinks[s].universeCount - 1)

\* Buffer offset of byte i of universe x of sink s.
Offset(s, x, i) == (sinks[s].startChannel - 1) + x * sinks[s].channelCount + i

\* Universe x of sink s holds the same bytes in frames f and g.
SameRange(f, g, s, x) ==
    \A i \in 0..(sinks[s].channelCount - 1) :
        f[Offset(s, x, i)] = g[Offset(s, x, i)]

\* The universes of sink s with a datagram in the batch msgs.
QueuedBy(msgs, s) ==
    {x \in Universes(s) :
        \E i \in 1..Len(msgs) : msgs[i].iov = <<"anIovecs", s, x * 2>>}

IsSync(m) == m.iov = <<"ArtNetSyncIovecs", 0, 0>>

SyncCount(msgs) == Cardinality({i \in 1..Len(msgs) : IsSync(msgs[i])})

Unresolved(s) ==
    sinks[s].config.type = ARTNET_TYPE_UNICAST /\ ~sinks[s].config.resolves

(* C1: for a valid, active sink and two consecutive PrepareData calls, a   *)
(* universe whose bytes are the same in both frames gets no datagram from  *)
(* the second call, and the second call adds exactly one to the            *)
(* skipped-frame counter, however many universes it skipped.               *)
C1_UnchangedUniverseSkipped ==
    [][\A s \in SinkIds :
         (PrepareStep(s) /\ sinks[s].valid /\ sinks[s].active
            /\ prevFrame # NoFrame)
         => LET same == {x \in Universes(s) :
                           SameRange(prevFrame, channelData, s, x)}
            IN same # {} =>
                 /\ QueuedBy(messages', s) \cap same = {}
                 /\ sinks'[s].skippedFrames = sinks[s].skippedFrames + 1
      ]_vars

\* Second call done: two universes unchanged, none queued, one skip counted.
C1_Witness ==
    \E s \in SinkIds :
        /\ s \in prepared /\ posted = {}
        /\ sinks[s].valid /\ sinks[s].active
        /\ prevFrame # NoFrame
        /\ sinks[s].universeCount >= 2
        /\ \A x \in Universes(s) : SameRange(prevFrame, channelData, s, x)
        /\ QueuedBy(messages, s) = {}
        /\ sinks[s].skippedFrames = 1

(* C2: one PrepareData call of a valid, active sink queues exactly the     *)
(* universes that differ from the snapshot (all of them without a          *)
(* snapshot); if it queued any, the snapshot afterwards is the sink's full *)
(* range of the supplied buffer, otherwise the snapshot is unchanged.      *)
C2_QueuedAreChanged ==
    [][\A s \in SinkIds :
         (PrepareStep(s) /\ sinks[s].valid /\ sinks[s].active)
         => LET snap == sinks[s].lastData
                cc == sinks[s].channelCount
                changed ==
                  {x \in Universes(s) :
                     \/ snap = NoData
                     \/ \E i \in 0..(cc - 1) :
                           channelData[Offset(s, x, i)] # snap[x * cc + i + 1]}
                full == [k \in 1..(cc * sinks[s].universeCount) |->
                           channelData[sinks[s].startChannel - 1 + k - 1]]
            IN /\ QueuedBy(messages', s) = changed
               /\ changed # {} => sinks'[s].lastData = full
               /\ changed = {} => sinks'[s].lastData = snap
      ]_vars

\* A call that queued one universe and skipped another; snapshot follows.
C2_Witness ==
    \E s \in SinkIds :
        /\ s \in prepared /\ posted = {}
        /\ sinks[s].valid /\ sinks[s].active
        /\ prevFrame # NoFrame
        /\ QueuedBy(messages, s) # {}
        /\ QueuedBy(messages, s) # Universes(s)
        /\ \A k \in 1..Len(sinks[s].lastData) :
              sinks[s].lastData[k] = channelData[sinks[s].startChannel - 1 + k - 1]

(* C3: over any number of PrepareData calls the sequence byte in the       *)
(* header of every queued datagram is in 1..255, and the sink's sequence   *)
(* counter is never 0 between calls.                                       *)
C3_SequenceNeverZero ==
    \A s \in SinkIds :
        /\ sinks[s].sequenceNumber \in 1..255
        /\ \A x \in QueuedBy(messages, s) : sinks[s].anHeaders[x] \in 1..255

\* The counter has wrapped: a datagram carries 255 and the counter is 1.
C3_Witness ==
    \E s \in SinkIds :
        /\ sinks[s].sequenceNumber = 1
        /\ \E x \in QueuedBy(messages, s) : sinks[s].anHeaders[x] = 255

(* C4: once any valid, active sink has run PostPrepareData in a tick, the  *)
(* batch holds exactly one synchronization packet; later PostPrepareData   *)
(* calls of the tick add none.                                             *)
C4_OneSyncPacket ==
    /\ SyncCount(messages) <= 1
    /\ (\E s \in posted : sinks[s].valid /\ sinks[s].active)
          => SyncCount(messages) = 1

\* Two enabled sinks have both posted and the batch holds one sync packet.
C4_Witness ==
    /\ \E s, u \in posted :
          /\ s # u
          /\ sinks[s].valid /\ sinks[s].active
          /\ sinks[u].valid /\ sinks[u].active
    /\ SyncCount(messages) = 1

C6_OneSocket ==
    /\ socketsCreated <= 1
    /\ (sendSocket = NoSocket) <=> (socketsCreated = 0)

\* Two enabled sinks have queued datagrams over one socket.
C6_Witness ==
    /\ \E s, u \in prepared :
          s # u /\ QueuedBy(messages, s) # {} /\ QueuedBy(messages, u) # {}
    /\ socketsCreated = 1
    /\ sendSocket # NoSocket

(* C7: a unicast sink whose host did not resolve is invalid and inactive;  *)
(* its PrepareData and PostPrepareData queue nothing, create no socket and *)
(* leave the sequence counter, snapshot and skipped-frame counter alone.   *)
C7_UnresolvedSinkInert ==
    \A s \in SinkIds :
        Unresolved(s) =>
          /\ ~sinks[s].valid /\ ~sinks[s].active
          /\ QueuedBy(messages, s) = {}
          /\ (SinkIds = {s} =>
                 messages = <<>> /\ sendSocket = NoSocket /\ socketsCreated = 0)
          /\ sinks[s].sequenceNumber = 1
          /\ sinks[s].lastData = NoData
          /\ sinks[s].skippedFrames = 0

\* An unresolved sink configured active, after both calls of the last tick.
C7_Witness ==
    \E s \in SinkIds :
        /\ Unresolved(s) /\ sinks[s].config.active
        /\ ticks = MaxTicks
        /\ s \in posted

(* C8: GetRequiredChannelRange returns min = startChannel-1 and            *)
(* max = min + channelCount*N, N the universe count (1 when configured     *)
(* below 1 or not at all), and [min, max) is the set of buffer offsets      *)
(* PrepareData uses.                                                       *)
C8_RequiredRange ==
    \A s \in SinkIds :
        LET r == GetRequiredChannelRange(sinks[s])
            cfg == sinks[s].config
            N == IF cfg.hasUniverseCount /\ cfg.universeCount >= 1
                 THEN cfg.universeCount ELSE 1
        IN /\ r.min = cfg.startChannel - 1
           /\ r.max - r.min = cfg.channelCount * N
           /\ (s \in prepared /\ sinks[s].valid /\ sinks[s].active)
                => reads[s] = r.min..(r.max - 1)

\* A sink of two universes of two channels has read its four offsets.
C8_Witness ==
    \E s \in SinkIds :
        /\ s \in prepared
        /\ sinks[s].valid /\ sinks[s].active
        /\ sinks[s].startChannel = 2
        /\ sinks[s].universeCount = 2
        /\ Cardinality(reads[s]) = 2 * sinks[s].channelCount
        /\ sinks[s].channelCount = 2

(* C9: with double buffering, consecutive SendData calls write alternating *)
(* halves of the mapping and pan the display to the half just written;     *)
(* without it every call writes at offset 0 and issues no pan.             *)
C9_AlternatingHalves ==
    [][fbLast'.n = fbLast.n + 1 =>
         IF fb.m_isDoubleBuffered
         THEN /\ fbLast.n >= 1 => fbLast'.dst # fbLast.dst
              /\ fbLast'.dst \in {0, fb.m_screenSize}
              /\ Len(fbLast'.pan) = 1
              /\ fbLast'.pan[1] * LineLength = fbLast'.dst
              /\ hw'.panYoffset = fbLast'.pan[1]
         ELSE /\ fbLast'.dst = 0
              /\ fbLast'.pan = NoPan
              /\ hw'.panYoffset = hw.panYoffset
      ]_vars

\* Double buffered: a third call has written the top half again.
C9_Witness ==
    /\ fb.m_isDoubleBuffered
    /\ fbLast.n = 3
    /\ fbLast.dst = 0
    /\ hw.mem[1] # 0

(* C10: with double buffering no SendData call, the first included, copies *)
(* into the half the display shows at the time of the copy.                *)
C10_NeverWritesShownHalf ==
    (fb.m_isDoubleBuffered /\ fbLast.n >= 1)
    => fbLast.dst # fbLast.shownAtCopy * LineLength

(* C16: for every queued datagram the payload length and the header's     *)
(* length field both equal the configured channel count, and that length   *)
(* is even.                                                                *)
C16_LengthEvenAndEqual ==
    \A s \in SinkIds : \A x \in QueuedBy(messages, s) :
        LET f == LengthField(sinks[s].channelCount)
        IN /\ f[1] * 256 + f[2] = sinks[s].config.channelCount
           /\ PayloadLength(sinks[s]) = sinks[s].config.channelCount
           /\ sinks[s].config.channelCount % 2 = 0

(* C20: every datagram queued by the k-th PrepareData call on a valid,     *)
(* active sink carries the sequence byte ((k-1) mod 255)+1, whether or not *)
(* earlier calls queued anything; calls[s] is k modulo 255.                *)
C20_SequenceFollowsCalls ==
    \A s \in SinkIds :
        (sinks[s].valid /\ sinks[s].active) =>
          /\ sinks[s].sequenceNumber = calls[s].n + 1
          /\ \A x \in QueuedBy(messages, s) :
                sinks[s].anHeaders[x] =
                    ((calls[s].n + SequenceModulus - 2)
                        % (SequenceModulus - 1)) + 1

\* The third call queues with sequence byte 3 after a call that queued nothing.
C20_Witness ==
    \E s \in SinkIds :
        /\ sinks[s].valid /\ sinks[s].active
        /\ calls[s].n = 3
        /\ calls[s].quiet
        /\ QueuedBy(messages, s) = Universes(s)
        /\ \A x \in Universes(s) : sinks[s].anHeaders[x] = 3

(* C17: when Init has failed, everything it acquired is undone: the device *)
(* and console descriptors are closed, the display mode is the original    *)
(* one, the console is in text mode and the staging frame is freed.        *)
C17_FailedInitReleasesAll ==
    fb.state = "failed" =>
        /\ ~hw.fdOpen
        /\ ~hw.ttyOpen
        /\ hw.mode = "orig"
        /\ hw.console = "text"
        /\ ~fb.frameAllocated

(* C18: after a successful Init and Close the display mode is the one read *)
(* at the start of Init and nothing is mapped, on every device; on the     *)
(* primary display the console is in text mode.                            *)
C18_CloseRestores ==
    fb.state = "closed" =>
        /\ hw.mode = "orig"
        /\ hw.mapped = 0
        /\ (fb.fb0 => hw.console = "text")

\* callCallbacks has reached the end of its loop.
DispatchOver == pc = "dispatch" /\ it = End

\* The callbacks registered from the start to the end of the dispatch.
KeptThroughout == nmHist.startSet \ nmHist.removed

TimesInvoked(id) ==
    Cardinality({i \in 1..Len(nmHist.invoked) : nmHist.invoked[i].id = id})

(* C11: every callback registered while an event is dispatched is invoked  *)
(* with that event's kind, flag and interface name, and a callback is      *)
(* never invoked once it has been removed.                                 *)
C11_RegisteredInvokedWithEvent ==
    /\ \A i \in 1..Len(nmHist.invoked) :
          nmHist.invoked[i].ev = ev /\ nmHist.invoked[i].live
    /\ DispatchOver =>
          \A id \in KeptThroughout :
              \E i \in 1..Len(nmHist.invoked) :
                  nmHist.invoked[i] = [id |-> id, ev |-> ev, live |-> TRUE]

(* C12: a dispatch in which a callback removes itself or another callback, *)
(* or registers one, never uses an invalidated registry position, does not *)
(* crash, and invokes every callback registered at its start and not       *)
(* removed exactly once.                                                   *)
C12_DispatchToleratesMutation ==
    /\ ~nmHist.touchedInvalid
    /\ pc # "crashed"
    /\ DispatchOver => \A id \in KeptThroughout : TimesInvoked(id) = 1

BufferDone == pc = "decode" /\ (~OK \/ h > Len(buf))

\* The event a message stands for: a link message gives a link event whose
\* flag is the running bit, an IPv4 address message an address event whose
\* flag is 1 for an addition, anything else nothing.
MessageEvents(m) ==
    CASE m.type = "RTM_NEWLINK" ->
           <<[kind |-> "NEW_LINK", up |-> IF m.running THEN 1 ELSE 0,
              name |-> m.name]>>
      [] m.type = "RTM_DELLINK" ->
           <<[kind |-> "DEL_LINK", up |-> IF m.running THEN 1 ELSE 0,
              name |-> m.name]>>
      [] m.type = "RTM_NEWADDR" /\ m.family = "AF_INET" ->
           <<[kind |-> "NEW_ADDR", up |-> 1, name |-> m.name]>>
      [] m.type = "RTM_DELADDR" /\ m.family = "AF_INET" ->
           <<[kind |-> "DEL_ADDR", up |-> 0, name |-> m.name]>>
      [] OTHER -> <<>>

RECURSIVE EventsOf(_)
EventsOf(b) ==
    IF b = <<>> THEN <<>> ELSE MessageEvents(Head(b)) \o EventsOf(Tail(b))

\* The messages of b in front of its first NLMSG_DONE or NLMSG_ERROR.
RECURSIVE UpToEndMarker(_)
UpToEndMarker(b) ==
    IF b = <<>> \/ Head(b).type \in {"NLMSG_DONE", "NLMSG_ERROR"}
    THEN <<>>
    ELSE <<Head(b)>> \o UpToEndMarker(Tail(b))

(* C14, as stated: the events of a read are those of all its messages,     *)
(* whatever other kinds of message stand between them.                     *)
C14_EveryMessageDecoded ==
    BufferDone => nmHist.events = EventsOf(buf)

(* C14, amended: the events of a read are those of its messages in front   *)
(* of the first NLMSG_DONE or NLMSG_ERROR; a link message gives one link   *)
(* event flagged with the running bit, an IPv4 address message one address *)
(* event, any other message none, without ending the decoding.             *)
C14_DecodedUpToEndMarker ==
    BufferDone => nmHist.events = EventsOf(UpToEndMarker(buf))

\* A read whose unknown first message was passed over and whose link message
\* was reported.
C14_Witness ==
    /\ BufferDone
    /\ Len(buf) = 2
    /\ buf[1].type = "RTM_NEWROUTE"
    /\ nmHist.events = <<[kind |-> "NEW_LINK", up |-> 1, name |-> "eth0"]>>

(* C15: when the socket could not be created or bound, Init has returned   *)
(* and the handler never decodes anything nor invokes a callback.          *)
C15_FailedSocketInert ==
    nlSocket \in {"bad", "unbound"} =>
        /\ pc = "idle"
        /\ nmHist.events = <<>>
        /\ nmHist.invoked = <<>>

\* The handler was invoked on a failed socket with a callback registered.
C15_Witness ==
    /\ nlSocket \in {"bad", "unbound"}
    /\ nmHist.polled
    /\ callbacks # {}

(* C19: after PrepData, pixel pix of strip s holds, for each of its three  *)
(* components, the entry of that output channel's brightness table at the  *)
(* buffer byte of the mapped channel outputMap[3*pix + k]; with identity   *)
(* tables that is the buffer byte itself, so a byte 0 gives component 0.   *)
C19_PixelsFromTables ==
    (spx.state = "ready" /\ spxData # NoPrepData) =>
        \A s \in 1..Len(spx.m_strings) :
            LET ps == spx.m_strings[s]
                data == spxData.data
            IN \A pix \in 0..((ps.m_outputChannels \div 3) - 1) :
                 \A k \in 0..2 :
                    LET byte == data[ps.m_outputMap[3 * pix + k + 1]]
                        table == ps.m_brightnessMaps[3 * pix + k + 1]
                    IN /\ spx.m_strips[s][pix][k + 1] = table[byte + 1]
                       /\ table = IdentityTable =>
                            spx.m_strips[s][pix][k + 1] = byte

\* Two strings prepared from a ramp: one with identity tables showing the
\* buffer bytes, 0 included, one with a table per channel.
C19_Witness ==
    /\ spx.state = "ready"
    /\ Len(spx.m_strings) = 2
    /\ spxData # NoPrepData
    /\ spxData.data[1] = 1
    /\ spx.m_strings[1].m_outputChannels = 6
    /\ \A p \in 1..6 : spx.m_strings[1].m_brightnessMaps[p] = IdentityTable
    /\ spx.m_strips[1][0] = <<0, 1, 2>>
    /\ spx.m_strings[2].m_brightnessMaps[1] = HalvedTable
    /\ spx.m_strings[2].m_brightnessMaps[3] = InvertedTable
    /\ \E pix \in DOMAIN spx.m_strips[2] : spx.m_strips[2][pix] # <<0, 0, 0>>

\* The snapshot of sink s holds the sink's whole byte range of frame f.
SnapshotIs(s, f) ==
    /\ Len(sinks[s].lastData) = sinks[s].channelCount * sinks[s].universeCount
    /\ \A x \in Universes(s) : \A i \in 0..(sinks[s].channelCount - 1) :
          sinks[s].lastData[x * sinks[s].channelCount + i + 1]
              = f[Offset(s, x, i)]

(* C26: after each PrepareData call on a valid active sink the snapshot    *)
(* equals the sink's whole byte range of the buffer given to that call,    *)
(* queued or not; so when the next call starts, the snapshot is the        *)
(* preceding frame.                                                        *)
C26_SnapshotIsLastFrame ==
    \A s \in SinkIds :
        (sinks[s].valid /\ sinks[s].active) =>
          /\ s \in prepared => SnapshotIs(s, channelData)
          /\ (tickOpen /\ s \notin prepared /\ prevFrame # NoFrame) =>
                SnapshotIs(s, prevFrame)

\* A second call that queued nothing, and whose buffer the snapshot equals.
C26_Witness ==
    \E s \in SinkIds :
        /\ sinks[s].valid /\ sinks[s].active
        /\ s \in prepared
        /\ prevFrame # NoFrame
        /\ calls[s].n = 2
        /\ QueuedBy(messages, s) = {}
        /\ \E c \in DOMAIN channelData : channelData[c] # 0
        /\ SnapshotIs(s, channelData)

(* C23: GetRequiredChannelRanges reports for each string the range from    *)
(* its smallest to its largest mapped channel below the limit, leaves a    *)
(* string out only when it maps no channel below the limit, and so every   *)
(* channel below the limit that PrepData reads lies in a reported range.   *)
C23_RangesCoverReads ==
    (spx.state = "ready" /\ spxRanges.reported) =>
        \A s \in 1..Len(spx.m_strings) :
            LET used == InLimit(spx.m_strings[s])
                rep == spxRanges.ranges[s]
            IN /\ used = {} => rep = <<>>
               /\ used # {} =>
                    rep = <<[min |-> Least(used), max |-> Greatest(used)]>>
               /\ spxData # NoPrepData =>
                    \A c \in spxData.channelReads[s] :
                        c < FPPD_MAX_CHANNELS =>
                            \E t \in 1..Len(spxRanges.ranges) :
                                /\ spxRanges.ranges[t] # <<>>
                                /\ spxRanges.ranges[t][1].min <= c
                                /\ c <= spxRanges.ranges[t][1].max

(* C27: for every string Init kept, PrepData reads table and map entries   *)
(* only below the string's output-channel count and sets pixels only below *)
(* the strip's pixel count; strings and strips pair up one to one, and no  *)
(* kept string has zero pixels.                                            *)
C27_PrepDataStaysInBounds ==
    /\ spx.state # "crashed"
    /\ Len(spx.m_strings) = Len(spx.m_strips)
    /\ \A s \in 1..Len(spx.m_strings) :
          LET ps == spx.m_strings[s]
              pixels == ps.m_outputChannels \div 3
          IN /\ pixels > 0
             /\ DOMAIN spx.m_strips[s] = 0..(pixels - 1)
             /\ spxData # NoPrepData =>
                  /\ \A p \in spxData.tableReads[s] : p < ps.m_outputChannels
                  /\ \A pix \in spxData.pixelsSet[s] : pix < pixels

(* C24: a dispatch invokes every callback in the registry exactly once, in *)
(* ascending id order, while the handler still stands on the message that  *)
(* gave the event; every id in the registry was handed out by a counter    *)
(* that only grows, so no id is used twice.                                *)
C24_OnceEachInIdOrder ==
    /\ \A i, j \in 1..Len(nmHist.invoked) :
          i < j => nmHist.invoked[i].id < nmHist.invoked[j].id
    /\ DispatchOver => \A id \in callbacks : TimesInvoked(id) = 1
    /\ pc = "dispatch" =>
          /\ OK /\ h <= Len(buf)
          /\ EventOf(buf[h]) = <<ev>>
    /\ \A id \in callbacks : id < curId

(* C25: a handler invocation makes a bounded number of reads and returns,  *)
(* also when notifications keep arriving while it runs.                    *)
C25_HandlerReturns ==
    (pc \in {"decode", "dispatch"}) ~> (pc = "idle")

\* 16-bit values with every combination of extreme and middle bytes.
WordSamples ==
    {hi * 256 + lo : hi \in {0, 1, 127, 128, 254, 255},
                     lo \in {0, 1, 127, 128, 254, 255}}

IsByte(b) == b \in 0..255

DestRow(f, vy) == IF f.m_inverted THEN f.yres - 1 - vy ELSE vy

\* The colour staged at column vx of that row: red, green, blue.
StagedColour(f, vx, vy) ==
    LET base == DestRow(f, vy) * f.m_lineLength + vx * (f.m_bpp \div 8)
    IN <<f.frame[base + (IF f.m_useRGB THEN 2 ELSE 0)],
         f.frame[base + 1],
         f.frame[base + (IF f.m_useRGB THEN 0 ELSE 2)]>>

\* The colour of the source pixel in column px of row py.
SourceColour(f, px, py) ==
    LET c == (py * f.m_width + px) * 3
        data == Image(f, f.m_frame)
    IN <<data[c], data[c + 1], data[c + 2]>>

RowBytes(f, vy) ==
    [k \in 0..(f.m_lineLength - 1) |->
        f.frame[DestRow(f, vy) * f.m_lineLength + k]]

ScaledAndStaged ==
    /\ fb.state = "ready"
    /\ fb.m_scaling = "SOFTWARE"
    /\ fb.m_bpp \in {24, 32}
    /\ fb.m_frame # 0

(* C22: with software scaling on a 24- or 32-bit surface, after PrepData   *)
(* the pixel staged at column vx of row vy has the colour of the source    *)
(* pixel (vx*srcWidth/dstWidth, vy*srcHeight/dstHeight), for screens       *)
(* larger and smaller than the matrix, and rows with the same source row   *)
(* are byte for byte the first such row.                                   *)
C22_NearestNeighbour ==
    ScaledAndStaged =>
        /\ \A vx \in 0..(fb.xres - 1) : \A vy \in 0..(fb.yres - 1) :
              StagedColour(fb, vx, vy) =
                 SourceColour(fb, (vx * fb.m_width) \div fb.xres,
                                  (vy * fb.m_height) \div fb.yres)
        /\ \A vy \in 0..(fb.yres - 1) : \A vz \in vy..(fb.yres - 1) :
              (vy * fb.m_height) \div fb.yres = (vz * fb.m_height) \div fb.yres
                 => RowBytes(fb, vz) = RowBytes(fb, vy)

====
